---- MODULE Spec2Model ----
(***************************************************************************)
(* Model of the in-memory event bus of service_orders                      *)
(* (events.InMemoryEventPublisher): a buffered channel of events, one      *)
(* worker goroutine (processEvents), one goroutine per handler invocation  *)
(* (handleEvent), publishers calling Publish, and one caller of Close.     *)
(* On top of the bus: the registry lock inside Subscribe and handleEvent,  *)
(* the handlers of the event service with their error counter, and the     *)
(* HTTP handlers of orders that publish after a repository write.          *)
(*                                                                         *)
(* A Go select picks uniformly among its ready cases; it takes the default *)
(* case only when no other case is ready.  A send case on a closed channel *)
(* is ready and panics when picked.                                        *)
(***************************************************************************)
EXTENDS Naturals, Sequences, FiniteSets

\* ------------------------------------------------------------------ bounds

\* Stands for the channel's buffer size (100 in the source).
QueueCap == 2
\* Number of Publish calls made in a behaviour of a bus with subscribers (each
\* call with a fresh event).
MaxEvents == 2
\* Number of Subscribe calls made in a behaviour.
MaxSubs == 2
\* Number of orders the orders table can hold.
MaxOrders == 1
\* Number of calls made to the Kafka publisher in a behaviour.
MaxCalls == 3
\* Number of UpdateOrderStatus and CancelOrder requests served concurrently
\* in a behaviour.
MaxRequests == 2

\* ------------------------------------------------------------------ domains

EventTypes == {"order.created", "order.status.updated"}
\* A handler is an opaque function value; the k-th Subscribe call registers
\* handler k.
Handlers == 1..MaxSubs
\* The handler functions NewEventService registers: the default logging
\* handler of order.created, the one of order.status.updated,
\* AnalyticsEventHandler, NotificationEventHandler, AuditEventHandler.
DefaultCreated == MaxSubs + 1
DefaultStatus == MaxSubs + 2
Analytics == MaxSubs + 3
Notifications == MaxSubs + 4
Audit == MaxSubs + 5
FacadeHandlers == {DefaultCreated, DefaultStatus, Analytics, Notifications, Audit}
AllHandlers == Handlers \cup FacadeHandlers
\* Number of Publish calls made in a behaviour of a bus without subscribers:
\* one more than the buffer holds, so that the buffer overflows.
BurstEvents == QueueCap + 1
EventIds == 1..(IF MaxEvents > BurstEvents THEN MaxEvents ELSE BurstEvents)

\* The ids of the orders (uuid.New() in the source).
OrderIds == 1..MaxOrders
\* The requests that are served concurrently in a behaviour, each by its
\* own goroutine of the HTTP server.
Slots == 1..MaxRequests

\* What a Publish call returned: "ok" is nil, "cancelled" is ctx.Err(),
\* "closed" is the error "publisher закрыт", "full" is the error "очередь
\* событий переполнена", "panic" is the panic of a send on a closed channel.
Results == {"ok", "cancelled", "closed", "full", "panic"}

VARIABLES
    subscribers,   \* p.subscribers: event type -> sequence of handlers
    events,        \* p.events: the channel's buffer, a FIFO of event ids
    cancelled,     \* p.ctx is done (p.cancel() was called)
    chClosed,      \* p.events was closed
    wpc,           \* position of the processEvents goroutine
    closePc,       \* position of the caller of Close
    nextId,        \* the next fresh event id
    evType,        \* event.Type of every event the bus accepted
    accepted,      \* the events for which Publish returned nil
    calls,         \* per event: the handler goroutines spawned for it
    \* history variables, read by the properties only
    lastCtxDone,   \* whether the ctx of the latest Publish call (event nextId - 1) was done
    lastResult,    \* what the latest Publish call returned
    owed,          \* per event: the handlers subscribed to its type when it was
                   \* published that have not run for it yet
    dispatchedWith,\* per event: the handler lists handleEvent looked up for it
    acceptedBeforeClose, \* events accepted when Close was called
    \* the registry lock, for the steps inside Subscribe and handleEvent
    mutex,         \* p.mutex: "free", "w" (write-locked) or "r" (read-locked)
    subCall,       \* the Subscribe call that holds the write lock, or <<>>
    he,            \* the handleEvent call the worker is in, or <<>>
    \* the handlers of the event service
    hkind,         \* per registered handler: which handler function it is
    payload,       \* per accepted event: the shape of event.Data
    eventStats,    \* the package-level counters of handlers.go
    newStatus,     \* per accepted event: the NewStatus its data carries
    notified,      \* per event: the notifications the notification handler sent
    audited,       \* per event: the records the audit handler wrote for it
    statsRead,     \* what GetStats returned since the last handler ran, or <<>>
    \* the HTTP handlers of orders
    orders,        \* the orders table: per order id its status, or "none"
    rq,            \* the HTTP request being served and how far it got, or <<>>
    \* what surrounds the bus
    metadata,      \* per accepted event: event.Metadata
    kafkaLog,      \* the calls made to the Kafka publisher and what they returned
    evData,        \* per accepted status event: the order fields of its data
    reqs,          \* the HTTP requests served concurrently, each with how far it got
    close2         \* a second call of Close on the bus: how far it got

\* The lock-level view of Subscribe and handleEvent.
lockVars == <<mutex, subCall, he>>
\* The event service on top of the bus.
svcVars == <<hkind, payload, eventStats, newStatus, notified, audited, statsRead>>
\* The order handlers that publish to the bus.
ordVars == <<orders, rq>>
\* The metadata and data of the events, the Kafka publisher, the requests
\* served concurrently and the second Close.
edgeVars == <<metadata, kafkaLog, evData, reqs, close2>>

\* What the bus itself does not touch.
extVars == <<lockVars, svcVars, ordVars, edgeVars>>
\* What the steps under the registry lock do not touch.
lockExt == <<svcVars, ordVars, edgeVars>>
\* What the event handlers do not touch.
svcExt == <<lockVars, ordVars, edgeVars>>
\* What the order handlers do not touch.
ordExt == <<lockVars, svcVars, edgeVars>>

vars == <<subscribers, events, cancelled, chClosed, wpc, closePc, nextId,
          evType, accepted, calls, lastCtxDone, lastResult, owed,
          dispatchedWith, acceptedBeforeClose, extVars>>

busVars == <<events, cancelled, chClosed>>
pubVars == <<nextId, evType, accepted, lastCtxDone, lastResult>>

\* ------------------------------------------------------------------ helpers

\* The lifecycle phase of the bus as the spec names it.
Phase ==
    IF closePc = "returned" THEN "closed"
    ELSE IF cancelled THEN "draining"
    ELSE "running"

SeqToSet(s) == {s[i] : i \in 1..Len(s)}

Dispatched(e) == dispatchedWith[e] # <<>>

\* ------------------------------------------------------------------ Init

\* NewInMemoryEventPublisher: empty registry, empty channel, live context,
\* the worker started.
Init ==
    /\ subscribers = [t \in EventTypes |-> <<>>]
    /\ events = <<>>
    /\ cancelled = FALSE
    /\ chClosed = FALSE
    /\ wpc = "select"
    /\ closePc = "idle"
    /\ nextId = 1
    /\ evType = [e \in EventIds |-> "none"]
    /\ accepted = {}
    /\ calls = [e \in EventIds |-> <<>>]
    /\ lastCtxDone = FALSE
    /\ lastResult = "none"
    /\ owed = [e \in EventIds |-> {}]
    /\ dispatchedWith = [e \in EventIds |-> <<>>]
    /\ acceptedBeforeClose = {}
    /\ mutex = "free"
    /\ subCall = <<>>
    /\ he = <<>>
    /\ hkind = [h \in AllHandlers |-> "none"]
    /\ payload = [e \in EventIds |-> "none"]
    /\ eventStats = [OrdersCreated |-> 0, StatusUpdates |-> 0, OrdersCancelled |-> 0,
                     EventsPublished |-> 0, EventProcessingErrors |-> 0]
    /\ newStatus = [e \in EventIds |-> "none"]
    /\ notified = [e \in EventIds |-> 0]
    /\ audited = [e \in EventIds |-> 0]
    /\ statsRead = <<>>
    /\ orders = [o \in OrderIds |-> "none"]
    /\ rq = <<>>
    /\ metadata = [e \in EventIds |-> <<>>]
    /\ kafkaLog = <<>>
    /\ evData = [e \in EventIds |-> <<>>]
    /\ reqs = [q \in Slots |-> <<>>]
    /\ close2 = "idle"

\* ------------------------------------------------------------------ Subscribe

NumSubscribed == Len(subscribers["order.created"]) + Len(subscribers["order.status.updated"])

\* A registration that puts the new handler in front of the list.
Subscribe_Prepend(t, h) ==
    /\ NumSubscribed < MaxSubs
    /\ h = NumSubscribed + 1
    /\ subscribers' = [subscribers EXCEPT ![t] = <<h>> \o @]
    /\ UNCHANGED <<busVars, wpc, closePc, pubVars, calls, owed, dispatchedWith,
                   acceptedBeforeClose>>

\* Subscribe: append the handler to the list of the event type (under the
\* write lock, so the step is atomic).
Subscribe(t, h) ==
    /\ NumSubscribed < MaxSubs
    /\ h = NumSubscribed + 1
    /\ subscribers' = [subscribers EXCEPT ![t] = Append(@, h)]
    /\ UNCHANGED <<busVars, wpc, closePc, pubVars, calls, owed, dispatchedWith,
                   acceptedBeforeClose>>

\* ------------------------------------------------------------------ Publish

\* An off-by-one buffer test: the send is taken as ready with the buffer full.
SendReady_OffByOne == chClosed \/ Len(events) <= QueueCap

\* case p.events <- event: ready when the buffer has a free slot, and also
\* when the channel is closed (the send then panics).
SendReady == chClosed \/ Len(events) < QueueCap

\* A send case that is ready whatever the buffer holds (an unbounded queue).
ReadyCases_Unbounded(ctxDone) ==
    {IF chClosed THEN "panic" ELSE "ok"}
    \cup (IF ctxDone THEN {"cancelled"} ELSE {})
    \cup (IF cancelled THEN {"closed"} ELSE {})

\* The cases of Publish's select that are ready, named by what Publish then
\* does, for a caller whose ctx is done (ctxDone) or live.
ReadyCases(ctxDone) ==
    (IF SendReady THEN {IF chClosed THEN "panic" ELSE "ok"} ELSE {})
    \cup (IF ctxDone THEN {"cancelled"} ELSE {})
    \cup (IF cancelled THEN {"closed"} ELSE {})

\* A select without a default case: it waits until a case is ready.
PublishOutcomes_NoDefault(ctxDone) == ReadyCases(ctxDone)

\* The outcomes the select of Publish can produce in the current state: one
\* of the ready cases, the default case when none is ready.
PublishOutcomes(ctxDone) ==
    IF ReadyCases(ctxDone) = {} THEN {"full"} ELSE ReadyCases(ctxDone)

\* A Publish that shuts the bus down when the caller's ctx is done.
Publish_CancelsBus(t, ctxDone) ==
    /\ nextId \in EventIds
    /\ nextId' = nextId + 1
    /\ lastCtxDone' = ctxDone
    /\ \E r \in PublishOutcomes(ctxDone) :
          /\ lastResult' = r
          /\ cancelled' = (cancelled \/ r = "cancelled")
          /\ IF r = "ok"
             THEN /\ events' = Append(events, nextId)
                  /\ evType' = [evType EXCEPT ![nextId] = t]
                  /\ accepted' = accepted \cup {nextId}
                  /\ owed' = [owed EXCEPT ![nextId] = SeqToSet(subscribers[t])]
             ELSE UNCHANGED <<events, evType, accepted, owed>>
    /\ UNCHANGED <<subscribers, chClosed, wpc, closePc, calls,
                   dispatchedWith, acceptedBeforeClose>>

\* Publish(ctx, event) with a fresh event of type t: the body is one select,
\* one atomic choice among the ready cases.
Publish(t, ctxDone) ==
    /\ nextId \in EventIds
    /\ nextId' = nextId + 1
    /\ lastCtxDone' = ctxDone
    /\ \E r \in PublishOutcomes(ctxDone) :
          /\ lastResult' = r
          /\ IF r = "ok"
             THEN /\ events' = Append(events, nextId)
                  /\ evType' = [evType EXCEPT ![nextId] = t]
                  /\ accepted' = accepted \cup {nextId}
                  /\ owed' = [owed EXCEPT ![nextId] = SeqToSet(subscribers[t])]
             ELSE UNCHANGED <<events, evType, accepted, owed>>
    /\ UNCHANGED <<subscribers, cancelled, chClosed, wpc, closePc, calls,
                   dispatchedWith, acceptedBeforeClose>>

\* ------------------------------------------------------------------ worker

\* A loop that stops one entry early.
Spawn_SkipLast(handlers) ==
    [i \in 1..(Len(handlers) - 1) |-> [h |-> handlers[i], st |-> "spawned"]]

\* The goroutines handleEvent spawns for a handler list: one per entry.
Spawn(handlers) == [i \in 1..Len(handlers) |-> [h |-> handlers[i], st |-> "spawned"]]

\* handleEvent(event): look the handler list up, spawn one goroutine per entry
\* (none when the list is empty).
HandleEvent(e) ==
    LET handlers == subscribers[evType[e]] IN
    /\ calls' = [calls EXCEPT ![e] = @ \o Spawn(handlers)]
    /\ dispatchedWith' = [dispatchedWith EXCEPT ![e] = Append(@, handlers)]

\* A worker that receives the event and forgets to handle it.
WorkerRecv_NoHandle ==
    /\ wpc = "select"
    /\ events # <<>>
    /\ events' = Tail(events)
    /\ UNCHANGED <<subscribers, cancelled, chClosed, wpc, closePc, pubVars,
                   calls, owed, dispatchedWith, acceptedBeforeClose,
                   extVars>>

\* A worker that takes the newest buffered event instead of the oldest.
WorkerRecv_Lifo ==
    /\ wpc = "select"
    /\ events # <<>>
    /\ events' = SubSeq(events, 1, Len(events) - 1)
    /\ HandleEvent(events[Len(events)])
    /\ UNCHANGED <<subscribers, cancelled, chClosed, wpc, closePc, pubVars,
                   owed, acceptedBeforeClose,
                   extVars>>

\* processEvents, outer select, case event := <-p.events: p.handleEvent(event)
WorkerRecv ==
    /\ wpc = "select"
    /\ events # <<>>
    /\ events' = Tail(events)
    /\ HandleEvent(Head(events))
    /\ UNCHANGED <<subscribers, cancelled, chClosed, wpc, closePc, pubVars,
                   owed, acceptedBeforeClose,
                   extVars>>

\* processEvents, outer select, case <-p.ctx.Done(): enter the drain loop
WorkerSeeDone ==
    /\ wpc = "select"
    /\ cancelled
    /\ wpc' = "drain"
    /\ UNCHANGED <<subscribers, busVars, closePc, pubVars, calls, owed,
                   dispatchedWith, acceptedBeforeClose,
                   extVars>>

\* processEvents, inner select, case event := <-p.events: p.handleEvent(event)
DrainRecv ==
    /\ wpc = "drain"
    /\ events # <<>>
    /\ events' = Tail(events)
    /\ HandleEvent(Head(events))
    /\ UNCHANGED <<subscribers, cancelled, chClosed, wpc, closePc, pubVars,
                   owed, acceptedBeforeClose,
                   extVars>>

\* A worker that returns on shutdown without emptying the buffer.
DrainExit_NoDrain ==
    /\ wpc = "drain"
    /\ wpc' = "exited"
    /\ UNCHANGED <<subscribers, busVars, closePc, pubVars, calls, owed,
                   dispatchedWith, acceptedBeforeClose,
                   extVars>>

\* processEvents, inner select, default: return (and the deferred wg.Done)
DrainExit ==
    /\ wpc = "drain"
    /\ events = <<>>
    /\ wpc' = "exited"
    /\ UNCHANGED <<subscribers, busVars, closePc, pubVars, calls, owed,
                   dispatchedWith, acceptedBeforeClose,
                   extVars>>

\* ------------------------------------------------------------------ handlers

\* A spawned handler goroutine is scheduled, runs h(ctx, event) and returns:
\* r is "done" for a return the bus does not look into, "failed" for a
\* return known to be an error (the goroutine then logs it).
HandlerReturn(e, i, r) ==
    /\ i \in 1..Len(calls[e])
    /\ calls[e][i].st = "spawned"
    /\ calls' = [calls EXCEPT ![e][i].st = r]
    /\ owed' = [owed EXCEPT ![e] = @ \ {calls[e][i].h}]
    /\ UNCHANGED <<subscribers, busVars, wpc, closePc, pubVars,
                   dispatchedWith, acceptedBeforeClose>>

\* A spawned handler goroutine is scheduled and runs h(ctx, event) to its
\* return (its error, if any, is logged).
HandlerRun(e, i) == HandlerReturn(e, i, "done") /\ UNCHANGED extVars

\* ------------------------------------------------------------------ Close

\* Close: p.cancel()
CloseCancel ==
    /\ closePc = "idle"
    /\ cancelled' = TRUE
    /\ closePc' = "wait"
    /\ acceptedBeforeClose' = accepted
    /\ UNCHANGED <<subscribers, events, chClosed, wpc, pubVars, calls,
                   owed, dispatchedWith,
                   extVars>>

\* Close: p.wg.Wait() returns once the worker has called wg.Done; then
\* close(p.events); return nil
CloseFinish ==
    /\ closePc = "wait"
    /\ wpc = "exited"
    /\ chClosed' = TRUE
    /\ closePc' = "returned"
    /\ UNCHANGED <<subscribers, events, cancelled, wpc, pubVars, calls,
                   owed, dispatchedWith, acceptedBeforeClose,
                   extVars>>

\* ------------------------------------------------------------------ Next

Worker == WorkerRecv \/ WorkerSeeDone \/ DrainRecv \/ DrainExit

HandlerStep == \E e \in EventIds : \E i \in 1..MaxSubs : HandlerRun(e, i)

Next ==
    \/ \E t \in EventTypes : \E h \in Handlers : Subscribe(t, h) /\ UNCHANGED extVars
    \/ \E t \in EventTypes : \E c \in BOOLEAN :
          nextId <= MaxEvents /\ Publish(t, c) /\ UNCHANGED extVars
    \/ Worker
    \/ HandlerStep
    \/ CloseCancel
    \/ CloseFinish

Spec == Init /\ [][Next]_vars

\* A bus on which Close is never called: the context is never cancelled, so
\* the worker stays in its outer select and only its receive case fires.
RunningNext ==
    \/ \E t \in EventTypes : \E h \in Handlers : Subscribe(t, h) /\ UNCHANGED extVars
    \/ \E t \in EventTypes : \E c \in BOOLEAN :
          nextId <= MaxEvents /\ Publish(t, c) /\ UNCHANGED extVars
    \/ WorkerRecv
    \/ HandlerStep

\* The Go scheduler runs every runnable goroutine eventually: the worker and
\* the handler goroutines keep taking their steps.
RunningSpec ==
    Init /\ [][RunningNext]_vars /\ WF_vars(WorkerRecv) /\ WF_vars(HandlerStep)

\* A bus nobody subscribes to, under a burst of BurstEvents Publish calls: the
\* buffer fills up and overflows.
QueueNext ==
    \/ \E t \in EventTypes : \E c \in BOOLEAN : Publish(t, c) /\ UNCHANGED extVars
    \/ Worker
    \/ CloseCancel
    \/ CloseFinish

QueueSpec == Init /\ [][QueueNext]_vars

\* ------------------------------------------------------------------ registry lock

\* The steps inside Subscribe and handleEvent, with p.mutex between them.
\* The bus is running (Close is not called); the worker is either in its
\* outer select (he = <<>>) or inside handleEvent.

\* Subscribe: p.mutex.Lock()
SubLock(t, h) ==
    /\ mutex = "free"
    /\ NumSubscribed < MaxSubs
    /\ h = NumSubscribed + 1
    /\ mutex' = "w"
    /\ subCall' = [t |-> t, h |-> h, pc |-> "locked"]
    /\ UNCHANGED <<subscribers, busVars, wpc, closePc, pubVars, calls, owed,
                   dispatchedWith, acceptedBeforeClose, he, lockExt>>

\* Subscribe: p.subscribers[eventType] = append(p.subscribers[eventType], handler)
SubAppend ==
    /\ subCall # <<>>
    /\ subCall.pc = "locked"
    /\ Subscribe(subCall.t, subCall.h)
    /\ subCall' = [subCall EXCEPT !.pc = "appended"]
    /\ UNCHANGED <<mutex, he, lockExt>>

\* Subscribe: return nil, and the deferred p.mutex.Unlock()
SubUnlock ==
    /\ subCall # <<>>
    /\ subCall.pc = "appended"
    /\ mutex' = "free"
    /\ subCall' = <<>>
    /\ UNCHANGED <<subscribers, busVars, wpc, closePc, pubVars, calls, owed,
                   dispatchedWith, acceptedBeforeClose, he, lockExt>>

\* processEvents, case event := <-p.events: the call of p.handleEvent(event)
HeEnter ==
    /\ wpc = "select"
    /\ he = <<>>
    /\ events # <<>>
    /\ events' = Tail(events)
    /\ he' = [e |-> Head(events), pc |-> "rlock", handlers |-> <<>>]
    /\ UNCHANGED <<subscribers, cancelled, chClosed, wpc, closePc, pubVars,
                   calls, owed, dispatchedWith, acceptedBeforeClose, mutex,
                   subCall, lockExt>>

\* A lookup that does not take the lock.
HeRLock_NoLock ==
    /\ he # <<>>
    /\ he.pc = "rlock"
    /\ he' = [he EXCEPT !.pc = "lookup"]
    /\ UNCHANGED <<subscribers, busVars, wpc, closePc, pubVars, calls, owed,
                   dispatchedWith, acceptedBeforeClose, mutex, subCall, lockExt>>

\* handleEvent: p.mutex.RLock()
HeRLock ==
    /\ he # <<>>
    /\ he.pc = "rlock"
    /\ mutex = "free"
    /\ mutex' = "r"
    /\ he' = [he EXCEPT !.pc = "lookup"]
    /\ UNCHANGED <<subscribers, busVars, wpc, closePc, pubVars, calls, owed,
                   dispatchedWith, acceptedBeforeClose, subCall, lockExt>>

\* handleEvent: handlers := p.subscribers[event.Type]
HeLookup ==
    /\ he # <<>>
    /\ he.pc = "lookup"
    /\ he' = [he EXCEPT !.pc = "runlock", !.handlers = subscribers[evType[he.e]]]
    /\ UNCHANGED <<subscribers, busVars, wpc, closePc, pubVars, calls, owed,
                   dispatchedWith, acceptedBeforeClose, mutex, subCall, lockExt>>

\* handleEvent: p.mutex.RUnlock(), then the test len(handlers) == 0 (return)
HeRUnlock ==
    /\ he # <<>>
    /\ he.pc = "runlock"
    /\ mutex' = "free"
    /\ dispatchedWith' = [dispatchedWith EXCEPT ![he.e] = Append(@, he.handlers)]
    /\ he' = IF he.handlers = <<>> THEN <<>> ELSE [he EXCEPT !.pc = "iterate"]
    /\ UNCHANGED <<subscribers, busVars, wpc, closePc, pubVars, calls, owed,
                   acceptedBeforeClose, subCall, lockExt>>

\* handleEvent: one turn of for _, handler := range handlers { go func ... },
\* over the local slice handlers; after the last turn handleEvent returns
HeSpawn ==
    /\ he # <<>>
    /\ he.pc = "iterate"
    /\ LET i == Len(calls[he.e]) + 1 IN
          /\ calls' = [calls EXCEPT ![he.e] =
                          Append(@, [h |-> he.handlers[i], st |-> "spawned"])]
          /\ he' = IF i = Len(he.handlers) THEN <<>> ELSE he
    /\ UNCHANGED <<subscribers, busVars, wpc, closePc, pubVars, owed,
                   dispatchedWith, acceptedBeforeClose, mutex, subCall, lockExt>>

LockNext ==
    \/ \E t \in EventTypes : \E h \in Handlers : SubLock(t, h)
    \/ SubAppend
    \/ SubUnlock
    \/ \E t \in EventTypes : nextId <= MaxEvents /\ Publish(t, FALSE) /\ UNCHANGED extVars
    \/ HeEnter
    \/ HeRLock
    \/ HeLookup
    \/ HeRUnlock
    \/ HeSpawn
    \/ HandlerStep

LockSpec == Init /\ [][LockNext]_vars

\* ------------------------------------------------------------------ event service

\* The handler functions a service registers: the default logging handlers,
\* AnalyticsEventHandler, NotificationEventHandler, AuditEventHandler, and a
\* handler passed to AddCustomHandler.
Kinds == {"default", "analytics", "notifications", "audit", "custom"}

\* What event.Data holds: the typed struct of the event type, a
\* map[string]interface{} that decodes into it, or a value of another type
\* that encoding/json cannot marshal (a channel).
Shapes == {"typed", "map", "chan"}

\* What a handler of kind k returns for an event whose Data has shape s.
HandlerOutcomes(k, s) ==
    CASE k = "default" -> IF s = "typed" THEN {"done"} ELSE {"failed"}
      [] k \in {"analytics", "notifications"} ->
             IF s \in {"typed", "map"} THEN {"done"} ELSE {"failed"}
      [] k = "audit" -> IF s = "chan" THEN {"failed"} ELSE {"done"}
      [] OTHER -> {"done", "failed"}

\* The handlers that add 1 to eventStats.EventProcessingErrors on every path
\* on which they return an error.
CountsErrors(k) == k \in {"analytics", "notifications", "audit"}

\* registerDefaultHandlers / AddCustomHandler: s.publisher.Subscribe(t, handler)
SubscribeHandler(t, h, k) ==
    /\ Subscribe(t, h)
    /\ hkind' = [hkind EXCEPT ![h] = k]
    /\ UNCHANGED <<payload, eventStats, newStatus, notified, audited, statsRead, svcExt>>

\* The NewStatus the data of an event of type t and shape s can carry, NS
\* being the statuses an update asks for: an order.created event carries the
\* status "created", data that is no payload at all carries none.
DataStatuses(t, s, NS) ==
    IF s = "chan" THEN {"none"}
    ELSE IF t = "order.created" THEN {"created"} ELSE NS

\* A string is the sequence of its parts, so that "" is <<>> and
\* concatenation is \o.
\* Metadata{}: every field the empty string.
ZeroMetadata ==
    [RequestID |-> <<>>, UserAgent |-> <<>>, IPAddress |-> <<>>, Source |-> <<>>,
     CorrelationID |-> <<>>]

\* An event whose data names no order.
NoData == <<>>

\* s.publisher.Publish(ctx, event) with a live ctx and an event whose Data
\* has shape s and carries the new status ns and the order fields d, and
\* whose Metadata is m. What the caller does with the result is the
\* caller's step (reqs).
PublishEvent(t, s, ns, m, d) ==
    /\ nextId <= MaxEvents
    /\ Publish(t, FALSE)
    /\ payload' = IF lastResult' = "ok" THEN [payload EXCEPT ![nextId] = s] ELSE payload
    /\ newStatus' = IF lastResult' = "ok" THEN [newStatus EXCEPT ![nextId] = ns] ELSE newStatus
    /\ metadata' = IF lastResult' = "ok" THEN [metadata EXCEPT ![nextId] = m] ELSE metadata
    /\ evData' = IF lastResult' = "ok" THEN [evData EXCEPT ![nextId] = d] ELSE evData
    /\ UNCHANGED <<hkind, eventStats, notified, audited, statsRead, lockVars, ordVars,
                   kafkaLog, close2>>

\* Counters that every handler of the service adds to.
StatsAfter_EveryHandler(stats, k, t, s, ns, r) ==
    LET counted ==
            [stats EXCEPT
                !.EventsPublished = @ + 1,
                !.OrdersCreated = @ + (IF t = "order.created" THEN 1 ELSE 0),
                !.StatusUpdates = @ + (IF t = "order.status.updated" THEN 1 ELSE 0),
                !.OrdersCancelled =
                    @ + (IF t = "order.status.updated" /\ r = "done" /\ ns = "cancelled"
                         THEN 1 ELSE 0)]
    IN  IF r = "failed" /\ CountsErrors(k)
        THEN [counted EXCEPT !.EventProcessingErrors = @ + 1]
        ELSE counted

\* Counters that count an event without counting its type.
StatsAfter_NoTypeCount(stats, k, t, s, ns, r) ==
    LET counted ==
            IF k = "analytics"
            THEN [stats EXCEPT
                    !.EventsPublished = @ + 1,
                    !.OrdersCancelled =
                        @ + (IF t = "order.status.updated" /\ r = "done" /\ ns = "cancelled"
                             THEN 1 ELSE 0)]
            ELSE stats
    IN  IF r = "failed" /\ CountsErrors(k)
        THEN [counted EXCEPT !.EventProcessingErrors = @ + 1]
        ELSE counted

\* Counters that take every status update for a cancellation.
StatsAfter_CancelAlways(stats, k, t, s, ns, r) ==
    LET counted ==
            IF k = "analytics"
            THEN [stats EXCEPT
                    !.EventsPublished = @ + 1,
                    !.OrdersCreated = @ + (IF t = "order.created" THEN 1 ELSE 0),
                    !.StatusUpdates = @ + (IF t = "order.status.updated" THEN 1 ELSE 0),
                    !.OrdersCancelled =
                        @ + (IF t = "order.status.updated" /\ r = "done" THEN 1 ELSE 0)]
            ELSE stats
    IN  IF r = "failed" /\ CountsErrors(k)
        THEN [counted EXCEPT !.EventProcessingErrors = @ + 1]
        ELSE counted

\* eventStats after a handler of kind k has run on an event of type t whose
\* data has shape s and new status ns, and has returned r.
\* AnalyticsEventHandler counts the event and its type before it reads the
\* data, and a cancellation after it has read the data; the handlers of
\* handlers.go count the error they return.
StatsAfter(stats, k, t, s, ns, r) ==
    LET counted ==
            IF k = "analytics"
            THEN [stats EXCEPT
                    !.EventsPublished = @ + 1,
                    !.OrdersCreated = @ + (IF t = "order.created" THEN 1 ELSE 0),
                    !.StatusUpdates = @ + (IF t = "order.status.updated" THEN 1 ELSE 0),
                    !.OrdersCancelled =
                        @ + (IF t = "order.status.updated" /\ r = "done" /\ ns = "cancelled"
                             THEN 1 ELSE 0)]
            ELSE stats
    IN  IF r = "failed" /\ CountsErrors(k)
        THEN [counted EXCEPT !.EventProcessingErrors = @ + 1]
        ELSE counted

\* A notification handler that reports every event it could read.
Notifies_AnyStatus(k, t, ns, r) ==
    /\ k = "notifications"
    /\ r = "done"

\* Whether a handler of kind k that returned r sent a notification for an
\* event of type t with new status ns: NotificationEventHandler does for
\* every order.created event it could read, and for an order.status.updated
\* event whose new status is completed or cancelled.
Notifies(k, t, ns, r) ==
    /\ k = "notifications"
    /\ r = "done"
    /\ t = "order.created" \/ ns \in {"completed", "cancelled"}

\* What the handler of call i of event e does besides returning r: the
\* counters, the notification, the audit record.
HandlerEffects(e, i, r) ==
    LET k == hkind[calls[e][i].h] IN
    /\ eventStats' = StatsAfter(eventStats, k, evType[e], payload[e], newStatus[e], r)
    /\ notified' = [notified EXCEPT ![e] =
                       @ + (IF Notifies(k, evType[e], newStatus[e], r) THEN 1 ELSE 0)]
    /\ audited' = [audited EXCEPT ![e] = @ + (IF k = "audit" /\ r = "done" THEN 1 ELSE 0)]
    /\ statsRead' = <<>>

\* A handler goroutine that is not run once a handler of the same event
\* has returned an error.
HandlerInvokeWith_Abort(e, i, r) ==
    /\ i \in 1..Len(calls[e])
    /\ \A j \in 1..Len(calls[e]) : calls[e][j].st # "failed"
    /\ r \in HandlerOutcomes(hkind[calls[e][i].h], payload[e])
    /\ HandlerReturn(e, i, r)
    /\ HandlerEffects(e, i, r)
    /\ UNCHANGED <<hkind, payload, newStatus, svcExt>>

\* The goroutine of handleEvent runs the handler, which returns r: r is
\* what the handler's code returns for the event, and the handler counts,
\* notifies and records as its code does.
HandlerInvokeWith(e, i, r) ==
    /\ i \in 1..Len(calls[e])
    /\ r \in HandlerOutcomes(hkind[calls[e][i].h], payload[e])
    /\ HandlerReturn(e, i, r)
    /\ HandlerEffects(e, i, r)
    /\ UNCHANGED <<hkind, payload, newStatus, svcExt>>

HandlerInvoke(e, i) == \E r \in {"done", "failed"} : HandlerInvokeWith(e, i, r)

\* A handler invocation has returned an error.
SomeCallFailed ==
    \E e \in EventIds : \E j \in 1..Len(calls[e]) : calls[e][j].st = "failed"

\* A worker that stops receiving once a handler has returned an error.
ServiceWorkerRecv_Stops == ~SomeCallFailed /\ WorkerRecv

\* The worker of the bus under the service.
ServiceWorkerRecv == WorkerRecv

\* A running event service whose handlers are of the kinds K and whose
\* events carry data of the shapes S, status updates asking for the
\* statuses NS: handlers are registered, events are published, the worker
\* dispatches, the handlers run.
ServiceNext(K, S, NS) ==
    \/ \E t \in EventTypes : \E h \in Handlers : \E k \in K : SubscribeHandler(t, h, k)
    \/ \E t \in EventTypes : \E s \in S : \E ns \in DataStatuses(t, s, NS) :
          PublishEvent(t, s, ns, ZeroMetadata, NoData) /\ UNCHANGED reqs
    \/ ServiceWorkerRecv
    \/ \E e \in EventIds : \E i \in 1..MaxSubs : HandlerInvoke(e, i)

\* The service with all its handlers and every shape of event data.
HandlerSpec == Init /\ [][ServiceNext(Kinds, Shapes, {"in_work", "cancelled"})]_vars

\* A service with handlers added by AddCustomHandler only, which may return
\* an error or not for any event.
CustomSpec == Init /\ [][ServiceNext({"custom"}, {"typed"}, {"in_work"})]_vars

\* ------------------------------------------------------------------ order handlers

\* models.OrderStatus: "создан", "в работе", "выполнен", "отменён".
OrderStatuses == {"created", "in_work", "completed", "cancelled"}

\* The HTTP handlers that change an order: CreateOrder, UpdateOrderStatus,
\* CancelOrder.
Ops == {"create", "update", "cancel"}

\* Order.CanBeUpdated / Order.CanBeCancelled
CanBeUpdated(status) == status \in {"created", "in_work"}

\* The error responses a handler can send before it writes to the
\* repository, for reasons the request or the database decide: 401 (no user
\* context), 400 (bad id, bad JSON, failed validation, unknown user), 500
\* (UserExists failed), 404 (GetByID failed), 403 (not the owner).
RejectCodes(op) == IF op = "create" THEN {401, 400, 500} ELSE {401, 400, 404, 403}

\* The event type a handler publishes.
EventTypeOf(op) == IF op = "create" THEN "order.created" ELSE "order.status.updated"

\* The responses a handler sends after a publication that succeeded: 201
\* for CreateOrder; 200, or 500 when reading the order back fails, for the
\* other two.
ResponsesAfterPublish(op) == IF op = "create" THEN {201} ELSE {200, 500}

\* The server calls a handler with a request: for CreateOrder the order gets
\* a fresh id and the status "created", for UpdateOrderStatus the request
\* names the order and the status, for CancelOrder the order.
BeginRequest(op, id, st) ==
    /\ IF rq = <<>> THEN TRUE ELSE rq.pc = "responded"
    /\ op = "create" => (orders[id] = "none" /\ st = "created")
    /\ op = "cancel" => st = "cancelled"
    /\ rq' = [op |-> op, id |-> id, st |-> st, pc |-> "received", wrote |-> FALSE,
              pubs |-> 0, http |-> 0]
    /\ UNCHANGED <<subscribers, busVars, wpc, closePc, pubVars, calls, owed,
                   dispatchedWith, acceptedBeforeClose, orders, ordExt>>

\* The checks before the repository write: each can end the request with an
\* error response; UpdateOrderStatus and CancelOrder go on only for an order
\* that exists and can be updated.
ValidateRequest ==
    /\ rq # <<>>
    /\ rq.pc = "received"
    /\ \/ \E c \in RejectCodes(rq.op) : rq' = [rq EXCEPT !.pc = "responded", !.http = c]
       \/ /\ rq.op # "create"
          /\ orders[rq.id] = "none"
          /\ rq' = [rq EXCEPT !.pc = "responded", !.http = 404]
       \/ /\ rq.op # "create"
          /\ orders[rq.id] # "none"
          /\ ~CanBeUpdated(orders[rq.id])
          /\ rq' = [rq EXCEPT !.pc = "responded", !.http = 400]
       \/ /\ rq.op = "create" \/ CanBeUpdated(orders[rq.id])
          /\ rq' = [rq EXCEPT !.pc = "validated"]
    /\ UNCHANGED <<subscribers, busVars, wpc, closePc, pubVars, calls, owed,
                   dispatchedWith, acceptedBeforeClose, orders, ordExt>>

\* A handler that goes on to publish after a repository write that failed.
RepoWrite_PublishAnyway ==
    /\ rq # <<>>
    /\ rq.pc = "validated"
    /\ \/ /\ orders' = [orders EXCEPT ![rq.id] = rq.st]
          /\ rq' = [rq EXCEPT !.pc = "written", !.wrote = TRUE]
       \/ /\ rq' = [rq EXCEPT !.pc = "written"]
          /\ UNCHANGED orders
    /\ UNCHANGED <<subscribers, busVars, wpc, closePc, pubVars, calls, owed,
                   dispatchedWith, acceptedBeforeClose, ordExt>>

\* h.orderRepo.Create / UpdateStatus / Cancel: the write succeeds, or it
\* fails and the handler answers 500.
RepoWrite ==
    /\ rq # <<>>
    /\ rq.pc = "validated"
    /\ \/ /\ orders' = [orders EXCEPT ![rq.id] = rq.st]
          /\ rq' = [rq EXCEPT !.pc = "written", !.wrote = TRUE]
       \/ /\ rq' = [rq EXCEPT !.pc = "responded", !.http = 500]
          /\ UNCHANGED orders
    /\ UNCHANGED <<subscribers, busVars, wpc, closePc, pubVars, calls, owed,
                   dispatchedWith, acceptedBeforeClose, ordExt>>

\* h.eventService.Publish...(context.Background(), ...): one Publish call on
\* the bus; an error is logged and the handler goes on; a panic ends the
\* handler without a response (http = 0, the server drops the connection).
PublishOrderEvent ==
    /\ rq # <<>>
    /\ rq.pc = "written"
    /\ Publish(EventTypeOf(rq.op), FALSE)
    /\ rq' = [rq EXCEPT !.pubs = @ + 1,
                        !.pc = IF lastResult' = "panic" THEN "responded" ELSE "published"]
    /\ UNCHANGED <<orders, ordExt>>

\* The response after the publication: 201 with the order for CreateOrder;
\* the other two read the order back and answer 200, or 500 when that fails.
Respond ==
    /\ rq # <<>>
    /\ rq.pc = "published"
    /\ \E c \in ResponsesAfterPublish(rq.op) : rq' = [rq EXCEPT !.pc = "responded", !.http = c]
    /\ UNCHANGED <<subscribers, busVars, wpc, closePc, pubVars, calls, owed,
                   dispatchedWith, acceptedBeforeClose, orders, ordExt>>

\* The order handlers serving requests one after another over a bus nobody
\* subscribes to, with the worker running and Close callable at any time.
OrderNext ==
    \/ \E op \in Ops : \E id \in OrderIds : \E st \in OrderStatuses : BeginRequest(op, id, st)
    \/ ValidateRequest
    \/ RepoWrite
    \/ PublishOrderEvent
    \/ Respond
    \/ Worker
    \/ CloseCancel
    \/ CloseFinish

OrderSpec == Init /\ [][OrderNext]_vars

\* ------------------------------------------------------------------ event service facade

\* NewEventService has returned.
FacadeBuilt == hkind[DefaultCreated] # "none"

\* DefaultEventHandlers[t]
DefaultHandlerOf(t) == IF t = "order.created" THEN DefaultCreated ELSE DefaultStatus

\* The handler function behind a handler the facade registers.
FacadeKind(h) ==
    CASE h \in {DefaultCreated, DefaultStatus} -> "default"
      [] h = Analytics -> "analytics"
      [] h = Notifications -> "notifications"
      [] OTHER -> "audit"

\* A registration that forgets the audit handler.
InitialHandlers_NoAudit(t) == <<DefaultHandlerOf(t), Analytics, Notifications>>

\* The handlers registerDefaultHandlers subscribes to event type t, in the
\* order of its Subscribe calls for that type.
InitialHandlers(t) == <<DefaultHandlerOf(t), Analytics, Notifications, Audit>>

\* NewEventService(publisher): registerDefaultHandlers subscribes the
\* default handler of every type, then analytics, notifications and audit
\* to both types. The service is handed out once they are all registered.
NewEventService ==
    /\ ~FacadeBuilt
    /\ subscribers' = [t \in EventTypes |-> subscribers[t] \o InitialHandlers(t)]
    /\ hkind' = [h \in AllHandlers |->
                    IF h \in FacadeHandlers THEN FacadeKind(h) ELSE hkind[h]]
    /\ UNCHANGED <<busVars, wpc, closePc, pubVars, calls, owed, dispatchedWith,
                   acceptedBeforeClose>>
    /\ UNCHANGED <<payload, eventStats, newStatus, notified, audited, statsRead, svcExt>>

\* The handlers added by AddCustomHandler so far.
CustomHandlers == {h \in Handlers : hkind[h] = "custom"}

\* s.AddCustomHandler(t, handler): s.publisher.Subscribe(t, handler)
AddCustomHandler(t, h) ==
    /\ FacadeBuilt
    /\ h \in Handlers
    /\ h = Cardinality(CustomHandlers) + 1
    /\ subscribers' = [subscribers EXCEPT ![t] = Append(@, h)]
    /\ hkind' = [hkind EXCEPT ![h] = "custom"]
    /\ UNCHANGED <<busVars, wpc, closePc, pubVars, calls, owed, dispatchedWith,
                   acceptedBeforeClose>>
    /\ UNCHANGED <<payload, eventStats, newStatus, notified, audited, statsRead, svcExt>>

\* The X-Request-ID headers a request can carry: none ("" from Header.Get)
\* or an id.
RequestIds == {<<>>, <<"req-1">>}

\* r == nil: no HTTP request is supplied.
NoRequest == [nil |-> TRUE, RequestID |-> <<>>, UserAgent |-> <<>>, RemoteAddr |-> <<>>]

\* The *http.Request values handed to the publish methods.
Requests ==
    {NoRequest} \cup
    {[nil |-> FALSE, RequestID |-> id, UserAgent |-> <<"curl">>,
      RemoteAddr |-> <<"10.0.0.1:4000">>] : id \in RequestIds}

\* generateCorrelationID(r, operation): fmt.Sprintf("%s-%s", requestID,
\* operation), or operation when the X-Request-ID header is empty.
generateCorrelationID(r, operation) ==
    IF r.RequestID = <<>> THEN <<operation>> ELSE r.RequestID \o <<"-">> \o <<operation>>

\* s.extractMetadata(r, operation)
extractMetadata(r, operation) ==
    IF r.nil
    THEN [ZeroMetadata EXCEPT !.Source = <<"service_orders">>]
    ELSE [RequestID |-> r.RequestID,
          UserAgent |-> r.UserAgent,
          IPAddress |-> r.RemoteAddr,
          Source |-> <<"service_orders">>,
          CorrelationID |-> generateCorrelationID(r, operation)]

\* s.PublishOrderCreated(ctx, order, r): the event carries the typed data
\* NewOrderCreatedEvent builds and the metadata of r.
PublishOrderCreated(r) ==
    /\ FacadeBuilt
    /\ PublishEvent("order.created", "typed", "created", extractMetadata(r, "order.create"),
                    NoData)

\* The users: an order's owner and somebody else (uuid values in the source).
UserIds == {"u1", "u2"}

\* The order fields of a status event: the order, its owner, who changed
\* the status, the status before.
StatusData(o, userID, updatedBy, oldStatus) ==
    [OrderID |-> o, UserID |-> userID, UpdatedBy |-> updatedBy, OldStatus |-> oldStatus]

\* The status changes the service is asked to publish where the orders
\* themselves are not modelled: the owner moves order 1 on from "created".
SomeUpdate == StatusData(1, "u1", "u1", "created")

\* s.PublishOrderStatusUpdated(ctx, orderID, userID, updatedBy, oldStatus,
\* newStatus, r), d being the four order arguments.
PublishOrderStatusUpdated(d, ns, r) ==
    /\ FacadeBuilt
    /\ PublishEvent("order.status.updated", "typed", ns,
                    extractMetadata(r, "order.status.update"), d)

\* A cancellation published as a completion.
PublishOrderCancelled_Completed(d, r) == PublishOrderStatusUpdated(d, "completed", r)

\* s.PublishOrderCancelled(ctx, orderID, userID, cancelledBy, oldStatus, r)
PublishOrderCancelled(d, r) == PublishOrderStatusUpdated(d, "cancelled", r)

\* The goroutine of handleEvent runs a handler of the service.
FacadeHandlerInvoke(e, i) == \E r \in {"done", "failed"} : HandlerInvokeWith(e, i, r)

\* The keys of the map GetEventStats returns, by the counter each one reads.
StatKeys == {"orders_created", "status_updates", "orders_cancelled",
             "events_published", "event_processing_errors"}

\* GetEventStats: the map of the five counters, each read atomically.
GetEventStats(stats) ==
    [k \in StatKeys |->
        CASE k = "orders_created" -> stats.OrdersCreated
          [] k = "status_updates" -> stats.StatusUpdates
          [] k = "orders_cancelled" -> stats.OrdersCancelled
          [] k = "events_published" -> stats.EventsPublished
          [] OTHER -> stats.EventProcessingErrors]

\* A GetStats that counts its own call as a published event.
GetStats_Counting ==
    /\ FacadeBuilt
    /\ eventStats.EventsPublished < MaxEvents
    /\ eventStats' = [eventStats EXCEPT !.EventsPublished = @ + 1]
    /\ statsRead' = GetEventStats(eventStats')
    /\ UNCHANGED <<busVars, subscribers, wpc, closePc, pubVars, calls, owed,
                   dispatchedWith, acceptedBeforeClose>>
    /\ UNCHANGED <<hkind, payload, newStatus, notified, audited, svcExt>>

\* s.GetStats(): GetEventStats()
GetStats ==
    /\ FacadeBuilt
    /\ statsRead' = GetEventStats(eventStats)
    /\ UNCHANGED <<busVars, subscribers, wpc, closePc, pubVars, calls, owed,
                   dispatchedWith, acceptedBeforeClose>>
    /\ UNCHANGED <<hkind, payload, eventStats, newStatus, notified, audited, svcExt>>

\* The service as the order handlers use it: built once, events published
\* through PublishOrderCreated and PublishOrderStatusUpdated, the worker
\* dispatching, the four handlers of each event running.
FacadeNext ==
    \/ NewEventService
    \/ \E r \in {NoRequest} : PublishOrderCreated(r) /\ UNCHANGED reqs
    \/ \E ns \in OrderStatuses : \E r \in {NoRequest} :
          PublishOrderStatusUpdated(SomeUpdate, ns, r) /\ UNCHANGED reqs
    \/ ServiceWorkerRecv
    \/ \E e \in EventIds : \E i \in 1..Len(calls[e]) : FacadeHandlerInvoke(e, i)

FacadeSpec == Init /\ [][FacadeNext]_vars

\* The service with its statistics read at any moment, while orders are
\* created and cancelled.
StatsNext ==
    \/ NewEventService
    \/ \E r \in {NoRequest} : PublishOrderCreated(r) /\ UNCHANGED reqs
    \/ \E ns \in {"cancelled"} : \E r \in {NoRequest} :
          PublishOrderStatusUpdated(SomeUpdate, ns, r) /\ UNCHANGED reqs
    \/ ServiceWorkerRecv
    \/ \E e \in EventIds : \E i \in 1..Len(calls[e]) : FacadeHandlerInvoke(e, i)
    \/ GetStats

StatsSpec == Init /\ [][StatsNext]_vars

\* The registry of a service to which custom handlers are added while
\* events are published and dispatched.
RegistryNext ==
    \/ NewEventService
    \/ \E t \in EventTypes : \E h \in Handlers : AddCustomHandler(t, h)
    \/ \E r \in {NoRequest} : PublishOrderCreated(r) /\ UNCHANGED reqs
    \/ \E ns \in {"in_work"} : \E r \in {NoRequest} :
          PublishOrderStatusUpdated(SomeUpdate, ns, r) /\ UNCHANGED reqs
    \/ ServiceWorkerRecv

RegistrySpec == Init /\ [][RegistryNext]_vars

\* AnalyticsEventHandler runs for an event of type t that another
\* EventService of the same process published on its own bus: the handler
\* function and the counters it adds to are the package's, whoever
\* subscribed it.
OtherServiceAnalytics(t, ns) ==
    /\ FacadeBuilt
    /\ eventStats.EventsPublished < MaxEvents
    /\ eventStats' = StatsAfter(eventStats, "analytics", t, "typed", ns, "done")
    /\ statsRead' = <<>>
    /\ UNCHANGED <<busVars, subscribers, wpc, closePc, pubVars, calls, owed,
                   dispatchedWith, acceptedBeforeClose>>
    /\ UNCHANGED <<hkind, payload, newStatus, notified, audited, svcExt>>

\* Two event services in one process: the one whose statistics are read,
\* and another one whose events its own bus processes.
SharedStatsNext ==
    \/ StatsNext
    \/ \E t \in EventTypes : \E ns \in DataStatuses(t, "typed", {"cancelled"}) :
          OtherServiceAnalytics(t, ns)

SharedStatsSpec == Init /\ [][SharedStatsNext]_vars

\* The status changes published where cancellations are compared with
\* status updates: by the owner from "created", by somebody else from
\* "in_work".
AskedUpdates == {StatusData(1, "u1", "u1", "created"), StatusData(1, "u1", "u2", "in_work")}

\* The service publishing cancellations through PublishOrderCancelled and
\* status updates through PublishOrderStatusUpdated, the events processed
\* by its handlers.
CancelNext ==
    \/ NewEventService
    \/ \E d \in AskedUpdates : \E r \in {NoRequest} :
          PublishOrderCancelled(d, r) /\ UNCHANGED reqs
    \/ \E d \in AskedUpdates : \E ns \in {"in_work", "cancelled"} : \E r \in {NoRequest} :
          PublishOrderStatusUpdated(d, ns, r) /\ UNCHANGED reqs
    \/ ServiceWorkerRecv
    \/ \E e \in EventIds : \E i \in 1..Len(calls[e]) : FacadeHandlerInvoke(e, i)

CancelSpec == Init /\ [][CancelNext]_vars

\* The metadata the service attaches to the events it publishes, for every
\* request it can be handed.
MetadataNext ==
    \/ NewEventService
    \/ \E r \in Requests : PublishOrderCreated(r) /\ UNCHANGED reqs
    \/ \E ns \in {"in_work"} : \E r \in Requests :
          PublishOrderStatusUpdated(SomeUpdate, ns, r) /\ UNCHANGED reqs
    \/ ServiceWorkerRecv

MetadataSpec == Init /\ [][MetadataNext]_vars

\* ------------------------------------------------------------------ Kafka publisher

\* The calls a program can make to the Kafka publisher: the constructor and
\* the three methods of EventPublisher, with their arguments.
KafkaCalls ==
    {[op |-> "new"], [op |-> "close"]}
    \cup {[op |-> "publish", t |-> t, ctxDone |-> c] : t \in EventTypes, c \in BOOLEAN}
    \cup {[op |-> "subscribe", t |-> t, h |-> h] : t \in EventTypes, h \in Handlers}

\* The error a call returns: "not_implemented" for the errors "Kafka
\* publisher еще не реализован ...", "nil" for no error.
KafkaError(c) == IF c.op = "close" THEN "nil" ELSE "not_implemented"

\* A call to the Kafka publisher returns. The constructor returns the
\* publisher along with its error, so the methods can be called on it.
KafkaCall(c) ==
    /\ Len(kafkaLog) < MaxCalls
    /\ c.op = "new" \/ kafkaLog # <<>>
    /\ kafkaLog' = Append(kafkaLog, [call |-> c, err |-> KafkaError(c)])
    /\ UNCHANGED <<subscribers, busVars, wpc, closePc, pubVars, calls, owed,
                   dispatchedWith, acceptedBeforeClose, lockVars, svcVars, ordVars,
                   metadata, evData, reqs, close2>>

KafkaNext == \E c \in KafkaCalls : KafkaCall(c)

KafkaSpec == Init /\ [][KafkaNext]_vars

\* ------------------------------------------------------------------ concurrent requests

\* The user context of a request (utils.GetUserContextFromHeaders): the
\* user's id and whether the roles contain "admin".
Actors == [id : UserIds, admin : BOOLEAN]

\* The user_id of an order: every order of the model was created by "u1".
OwnerOf(o) == "u1"

\* A check that lets every user through.
ValidateOrderOwnership_Anyone(actor, orderUserID) == TRUE

\* uc.ValidateOrderOwnership(orderUserID) returns no error: the user is an
\* admin, or is the order's user.
ValidateOrderOwnership(actor, orderUserID) == actor.admin \/ actor.id = orderUserID

\* The *http.Request the server hands to a handler: never nil.
ServedRequest == CHOOSE r \in Requests : ~r.nil /\ r.RequestID = <<>>

\* What the steps of a request leave alone besides reqs and what they name.
serveFrame ==
    <<subscribers, busVars, wpc, closePc, pubVars, calls, owed, dispatchedWith,
      acceptedBeforeClose, lockVars, svcVars, rq, metadata, kafkaLog, evData, close2>>

\* The handler has answered with the code c and returned: its copy of the
\* order is gone.
Responded(rec, c) ==
    [rec EXCEPT !.pc = "responded", !.http = c, !.status = "none", !.prev = "none"]

\* The server starts a goroutine for an UpdateOrderStatus (op "update",
\* body status st) or CancelOrder (op "cancel") request on order id by the
\* user actor. The goroutine of a request that was answered is gone, its
\* slot free again.
BeginServe(q, op, id, st, actor) ==
    /\ FacadeBuilt
    /\ IF reqs[q] = <<>> THEN TRUE ELSE reqs[q].pc = "responded"
    /\ op = "cancel" => st = "cancelled"
    /\ reqs' = [reqs EXCEPT ![q] =
                   [op |-> op, id |-> id, st |-> st, actor |-> actor, pc |-> "received",
                    status |-> "none", prev |-> "none", http |-> 0]]
    /\ UNCHANGED <<serveFrame, orders>>

\* h.orderRepo.GetByID(orderID): the handler gets its own copy of the
\* order as it is stored now, or answers 404 (no such order, or the query
\* failed). The requests served are those that pass the checks of the user
\* context, the id and the body, which come before anything is read.
GetByID(q) ==
    /\ reqs[q] # <<>>
    /\ reqs[q].pc = "received"
    /\ \/ reqs' = [reqs EXCEPT ![q] = Responded(@, 404)]
       \/ /\ orders[reqs[q].id] # "none"
          /\ reqs' = [reqs EXCEPT ![q].pc = "read", ![q].status = orders[reqs[q].id]]
    /\ UNCHANGED <<serveFrame, orders>>

\* userCtx.ValidateOrderOwnership(order.UserID), then order.CanBeUpdated()
\* / order.CanBeCancelled(), both on the handler's copy of the order.
CheckOrder(q) ==
    /\ reqs[q] # <<>>
    /\ reqs[q].pc = "read"
    /\ reqs' = [reqs EXCEPT ![q] =
                   IF ~ValidateOrderOwnership(reqs[q].actor, OwnerOf(reqs[q].id))
                   THEN Responded(@, 403)
                   ELSE IF ~CanBeUpdated(reqs[q].status)
                        THEN Responded(@, 400)
                        ELSE [@ EXCEPT !.pc = "checked"]]
    /\ UNCHANGED <<serveFrame, orders>>

\* h.orderRepo.UpdateStatus(orderID, req.Status) / h.orderRepo.Cancel(orderID):
\* UPDATE orders SET status = $2 WHERE id = $1, whatever the stored status
\* is by now; or the statement fails and the handler answers 500. prev
\* records the status the row had immediately before the write.
UpdateStatus(q) ==
    /\ reqs[q] # <<>>
    /\ reqs[q].pc = "checked"
    /\ \/ /\ orders' = [orders EXCEPT ![reqs[q].id] = reqs[q].st]
          /\ reqs' = [reqs EXCEPT ![q].pc = "written", ![q].prev = orders[reqs[q].id]]
       \/ /\ reqs' = [reqs EXCEPT ![q] = Responded(@, 500)]
          /\ UNCHANGED orders
    /\ UNCHANGED serveFrame

\* h.eventService.PublishOrderStatusUpdated(ctx, orderID, order.UserID,
\* userCtx.UserID, oldStatus, req.Status, r), or PublishOrderCancelled for
\* CancelOrder: oldStatus is the status of the handler's copy. An error is
\* logged and the handler goes on.
PublishStatus(q) ==
    /\ reqs[q] # <<>>
    /\ reqs[q].pc = "written"
    /\ LET d == StatusData(reqs[q].id, OwnerOf(reqs[q].id), reqs[q].actor.id, reqs[q].status)
       IN  IF reqs[q].op = "cancel"
           THEN PublishOrderCancelled(d, ServedRequest)
           ELSE PublishOrderStatusUpdated(d, reqs[q].st, ServedRequest)
    /\ reqs' = [reqs EXCEPT ![q].pc = "published"]

\* The handler reads the order back and answers 200, or 500 when the read
\* fails.
Answer(q) ==
    /\ reqs[q] # <<>>
    /\ reqs[q].pc = "published"
    /\ \E c \in {200, 500} : reqs' = [reqs EXCEPT ![q] = Responded(@, c)]
    /\ UNCHANGED <<serveFrame, orders>>

\* CreateOrder served to its response (the steps of the order handlers
\* above), so that there are orders to update.
CreateOrderStep ==
    \/ \E id \in OrderIds : BeginRequest("create", id, "created")
    \/ rq # <<>> /\ rq.op = "create" /\ (ValidateRequest \/ RepoWrite \/ PublishOrderEvent \/ Respond)

\* The order service: the event service is built, orders are created, and
\* the goroutines Q serve UpdateOrderStatus and CancelOrder requests of the
\* users A asking for the statuses ST, over a running bus.
ServeNext(Q, A, ST) ==
    \/ NewEventService
    \/ CreateOrderStep
    \/ \E q \in Q : \E id \in OrderIds : \E actor \in A :
          \/ \E st \in ST : BeginServe(q, "update", id, st, actor)
          \/ BeginServe(q, "cancel", id, "cancelled", actor)
    \/ \E q \in Q : GetByID(q)
    \/ \E q \in Q : CheckOrder(q)
    \/ \E q \in Q : UpdateStatus(q)
    \/ \E q \in Q : nextId <= MaxEvents /\ PublishStatus(q)
    \/ \E q \in Q : Answer(q)
    \/ ServiceWorkerRecv

\* The owner's requests on an order, served concurrently.
RaceSpec ==
    Init /\ [][ServeNext(Slots, {[id |-> "u1", admin |-> FALSE]}, {"in_work", "completed"})]_vars

\* Requests of every kind of user, served one at a time.
AccessSpec == Init /\ [][ServeNext({1}, Actors, {"in_work"})]_vars

\* ------------------------------------------------------------------ Close called twice

\* A Close call of which the bus keeps no record: the bus has no flag that
\* says it was closed, so each call runs the same three statements.

\* The second call: p.cancel(), which a cancelled context ignores
Close2Cancel ==
    /\ close2 = "idle"
    /\ cancelled' = TRUE
    /\ close2' = "wait"
    /\ UNCHANGED <<subscribers, events, chClosed, wpc, closePc, pubVars, calls,
                   owed, dispatchedWith, acceptedBeforeClose,
                   lockVars, svcVars, ordVars, metadata, kafkaLog, evData, reqs>>

\* The second call: p.wg.Wait() returns once the worker has exited; then
\* close(p.events), which panics on a channel that is closed already
Close2Finish ==
    /\ close2 = "wait"
    /\ wpc = "exited"
    /\ IF chClosed
       THEN close2' = "panic" /\ UNCHANGED chClosed
       ELSE close2' = "returned" /\ chClosed' = TRUE
    /\ UNCHANGED <<subscribers, events, cancelled, wpc, closePc, pubVars, calls,
                   owed, dispatchedWith, acceptedBeforeClose,
                   lockVars, svcVars, ordVars, metadata, kafkaLog, evData, reqs>>

\* The first call reaches close(p.events) after the other call has closed
\* the channel: the same panic.
ClosePanic ==
    /\ closePc = "wait"
    /\ wpc = "exited"
    /\ chClosed
    /\ closePc' = "panic"
    /\ UNCHANGED <<subscribers, events, cancelled, chClosed, wpc, pubVars, calls,
                   owed, dispatchedWith, acceptedBeforeClose, extVars>>

\* The bus with two Close calls, one after the other or at the same time.
DoubleCloseNext ==
    \/ \E t \in EventTypes : \E h \in Handlers : Subscribe(t, h) /\ UNCHANGED extVars
    \/ \E t \in EventTypes :
          nextId <= MaxEvents /\ Publish(t, FALSE) /\ UNCHANGED extVars
    \/ Worker
    \/ HandlerStep
    \/ CloseCancel
    \/ ~chClosed /\ CloseFinish
    \/ ClosePanic
    \/ Close2Cancel
    \/ Close2Finish

DoubleCloseSpec == Init /\ [][DoubleCloseNext]_vars

\* ------------------------------------------------------------------ claims

\* A step that is a Publish call (every call takes a fresh event id).
IsPublish == nextId' = nextId + 1

AllDone(e) == \A i \in 1..Len(calls[e]) : calls[e][i].st = "done"

\* C1: every event Publish accepted is dequeued and handed to the handlers of
\* its type, also when Publish runs concurrently with Close.  Once the worker
\* has returned nothing is dequeued any more, so no accepted event may then
\* be undispatched.
C1_NoAcceptedEventLeftBehind ==
    wpc = "exited" => \A e \in accepted : Dispatched(e)

\* C2: a Publish call made after Close has returned fails with the BusClosed
\* error: it does not succeed, enqueue, panic or return another error.
C2_PublishAfterCloseFails ==
    [][(IsPublish /\ Phase = "closed")
         => (lastResult' = "closed" /\ events' = events)]_vars

\* C3: a Publish call made after Close cancelled the bus context and before
\* Close returned fails with BusClosed and does not enqueue the event.
C3_PublishWhileDrainingFails ==
    [][(IsPublish /\ Phase = "draining")
         => (lastResult' = "closed" /\ events' = events)]_vars

\* C4: when Close has returned, every handler invocation for an event that was
\* accepted before Close was called has completed.
C4_CloseWaitsForHandlers ==
    closePc = "returned" => \A e \in acceptedBeforeClose : AllDone(e)

\* C5: when Close has returned, every event accepted before Close was called
\* has been dequeued and dispatched: one handler goroutine was spawned per
\* subscriber the registry held for its type.
C5_CloseDrains ==
    closePc = "returned" =>
        \A e \in acceptedBeforeClose :
            /\ Dispatched(e)
            /\ Len(calls[e]) = Len(dispatchedWith[e][1])

\* C5 witness: Close returned after an accepted event was fanned out.
C5_Witness ==
    /\ closePc = "returned"
    /\ \E e \in acceptedBeforeClose : Dispatched(e) /\ Len(calls[e]) >= 1

\* C6: a Publish call whose caller context is already cancelled fails with the
\* caller's cancellation error and does not enqueue the event.
C6_CancelledCallerRejected ==
    [][(IsPublish /\ lastCtxDone')
         => (lastResult' = "cancelled" /\ events' = events)]_vars

\* C7: with the buffer full, the bus running and the caller's context live,
\* Publish returns the queue-full error and leaves the buffer as it was.
C7_QueueFullRejected ==
    [][(IsPublish /\ Len(events) = QueueCap /\ Phase = "running" /\ ~lastCtxDone')
         => (lastResult' = "full" /\ events' = events)]_vars

\* C7 witness: a Publish call was answered with the queue-full error while the
\* buffer is full and the bus is running.
C7_Witness == lastResult = "full" /\ Len(events) = QueueCap /\ ~cancelled

\* C8: Publish never waits: in every state, whatever the buffer holds and
\* whatever the lifecycle phase, a Publish call can complete at once.
C8_PublishNeverBlocks ==
    nextId \in EventIds =>
        \A t \in EventTypes : \A c \in BOOLEAN : ENABLED Publish(t, c)

\* C8 witness: the state in which a blocking send would wait: buffer full,
\* bus running, a Publish call still to come.
C8_Witness ==
    /\ nextId \in EventIds
    /\ Len(events) = QueueCap
    /\ ~cancelled
    /\ wpc = "select"

\* C9: on a bus on which Close is never called, with the worker and the
\* handler goroutines scheduled fairly, every accepted event is eventually
\* run by every handler that was subscribed to its type when it was published.
C9_RunningBusDelivers ==
    \A e \in EventIds : [](e \in accepted => <>(owed[e] = {}))

\* C9 witness: on a running bus an accepted event has been run by the
\* handlers subscribed to its type.
C9_Witness ==
    \E e \in accepted :
        /\ Phase = "running"
        /\ owed[e] = {}
        /\ Len(calls[e]) = 2
        /\ AllDone(e)

\* C10: an event is dispatched at most once, and a dispatched event has
\* exactly one handler invocation per entry of the handler list of its type,
\* in the order of the list.
C10_ExactlyOneInvocationPerHandler ==
    \A e \in EventIds :
        /\ Len(dispatchedWith[e]) <= 1
        /\ Dispatched(e) =>
              /\ Len(calls[e]) = Len(dispatchedWith[e][1])
              /\ \A i \in 1..Len(calls[e]) : calls[e][i].h = dispatchedWith[e][1][i]

\* C10 witness: an event of a type with two handlers was dispatched.
C10_Witness ==
    \E e \in EventIds : Dispatched(e) /\ Len(calls[e]) = 2

\* C18: the number of events buffered in the queue never exceeds the capacity,
\* in any state reachable under any interleaving of Publish calls, the worker
\* and Close.
C18_QueueBounded == Len(events) <= QueueCap

\* C18 witness: every Publish call of the burst was made and the buffer is at
\* capacity.
C18_Witness == Len(events) = QueueCap /\ nextId = BurstEvents + 1

\* C13: when a producer publishes E1 and then E2 and both are accepted, the
\* worker dequeues E1 before E2: E2 is never dequeued while E1 is still
\* waiting (event ids are the order of the Publish calls).
C13_FifoDequeue ==
    \A e1, e2 \in accepted : (e1 < e2 /\ Dispatched(e2)) => Dispatched(e1)

\* C13 witness: two accepted events wait in the buffer behind each other and
\* an earlier accepted event has been dequeued.
C13_Witness ==
    /\ Len(events) = 2
    /\ \E e \in accepted : e < events[1] /\ Dispatched(e)

\* C15: Subscribe always succeeds and is purely additive: in every state a
\* further handler can be registered for every event type, and a step that
\* changes the registry appends one handler at the end of one type's list,
\* keeps the entries that list had in their order, and leaves the lists of
\* the other types and the queue unchanged.
C15_SubscribeAdditive ==
    /\ [](NumSubscribed < MaxSubs =>
            \A t \in EventTypes : ENABLED Subscribe(t, NumSubscribed + 1))
    /\ [][subscribers' # subscribers =>
            /\ \E t \in EventTypes : \E h \in Handlers :
                  /\ subscribers'[t] = Append(subscribers[t], h)
                  /\ \A u \in EventTypes \ {t} : subscribers'[u] = subscribers[u]
            /\ events' = events]_vars

\* C15 witness: a second handler was registered for a type that already had
\* one, while an event was waiting in the queue.
C15_Witness ==
    /\ events # <<>>
    /\ \E t \in EventTypes : subscribers[t] = <<1, 2>>

\* C16: the lifecycle only moves forward Running -> Draining -> Closed: the
\* worker leaves Running only after the shutdown signal, leaves Draining only
\* with the buffer empty, and once it has exited no event is dequeued or
\* dispatched any more and no Publish call succeeds.
C16_LifecycleForward ==
    [][/\ (wpc' # wpc => <<wpc, wpc'>> \in {<<"select", "drain">>, <<"drain", "exited">>})
       /\ ((wpc = "select" /\ wpc' # "select") => cancelled)
       /\ ((wpc = "drain" /\ wpc' = "exited") => events = <<>>)
       /\ (wpc = "exited" =>
               /\ dispatchedWith' = dispatchedWith
               /\ Len(events') >= Len(events)
               /\ ~(IsPublish /\ lastResult' = "ok"))]_vars

\* The worker holds the read lock: it is between RLock and RUnlock.
InLookup == he # <<>> /\ he.pc \in {"lookup", "runlock"}

\* The worker is in the loop over the handlers it looked up.
InIteration == he # <<>> /\ he.pc = "iterate"

\* C17 (as stated): no Subscribe call modifies the handler list of an event
\* type while the worker is looking that list up or iterating it for an event.
C17_MutationExcludesIteration ==
    [][\A t \in EventTypes :
          subscribers'[t] # subscribers[t] =>
              ~((InLookup \/ InIteration) /\ evType[he.e] = t)]_vars

\* C17 (amended): a handler list is modified only under the write lock and
\* never while the worker holds the read lock for its lookup; the worker
\* holds the read lock throughout the lookup, and the loop that follows
\* spawns the handlers of the list as it was at the lookup.
C17_MutationExcludesLookup ==
    /\ [](InLookup => mutex = "r")
    /\ [](InIteration =>
            \A i \in 1..Len(calls[he.e]) :
                calls[he.e][i].h = dispatchedWith[he.e][1][i])
    /\ [][subscribers' # subscribers => (mutex = "w" /\ ~InLookup)]_vars

\* C17 witness: a Subscribe call has appended to the list of the type of the
\* event whose handlers the worker is iterating.
C17_Witness ==
    /\ InIteration
    /\ subCall # <<>>
    /\ subCall.pc = "appended"
    /\ subCall.t = evType[he.e]

\* C11: if a handler returns an error for an event, every other handler of
\* the list looked up for the event is still invoked for it, and what it
\* returns is unaffected: every handler of the list has a goroutine, and a
\* goroutine that has not run yet can run and return each result its
\* handler's code produces for the event, whatever its siblings returned.
C11_HandlerIsolation ==
    \A e \in EventIds :
        /\ Dispatched(e) => Len(calls[e]) = Len(dispatchedWith[e][1])
        /\ \A i \in 1..Len(calls[e]) :
               calls[e][i].st = "spawned" =>
                   \A r \in HandlerOutcomes(hkind[calls[e][i].h], payload[e]) :
                       ENABLED HandlerInvokeWith(e, i, r)

\* C11 witness: of the two handlers invoked for an event one returned an
\* error and the other returned without one.
C11_Witness ==
    \E e \in EventIds :
        /\ Len(calls[e]) = 2
        /\ \E i, j \in 1..2 : calls[e][i].st = "failed" /\ calls[e][j].st = "done"

\* The number of handler invocations that returned an error.
FailedCalls ==
    Cardinality({c \in EventIds \X (1..MaxSubs) :
                    c[2] <= Len(calls[c[1]]) /\ calls[c[1]][c[2]].st = "failed"})

\* C12: event_processing_errors goes up by exactly 1 for every handler
\* invocation that returns an error, whichever handler it is: the counter
\* equals the number of invocations that returned an error.
C12_ErrorCounterCountsFailures == eventStats.EventProcessingErrors = FailedCalls

\* How Publish answers on a running bus for a caller with a live ctx.
RunningPublishResult == IF Len(events) < QueueCap THEN "ok" ELSE "full"

\* C14: a handler error never reaches the producer and never stops the
\* worker: what Publish returns is fixed by the queue alone on a running bus
\* (nil with room in the buffer, the queue-full error without), and after a
\* handler returned an error the worker can still receive every waiting
\* event.
C14_HandlerErrorsStayInside ==
    /\ []((SomeCallFailed /\ events # <<>>) => ENABLED ServiceWorkerRecv)
    /\ [][IsPublish => lastResult' = RunningPublishResult]_vars

\* C14 witness: a handler returned an error for an event, and an event
\* published later was accepted, dispatched and handled.
C14_Witness ==
    \E e1, e2 \in accepted :
        /\ e1 < e2
        /\ \E i \in 1..Len(calls[e1]) : calls[e1][i].st = "failed"
        /\ Dispatched(e2)
        /\ Len(calls[e2]) >= 1
        /\ AllDone(e2)

\* C19: when the publication of a handler fails, the order change it has
\* committed is neither rolled back nor reported as failed: a request that
\* wrote to the repository leaves the order as written and is answered as it
\* is after a publication that succeeded.
C19_PublishFailureInvisible ==
    (rq # <<>> /\ rq.pc = "responded" /\ rq.wrote) =>
        /\ orders[rq.id] = rq.st
        /\ rq.http \in ResponsesAfterPublish(rq.op)

\* C20: each order change that succeeded causes exactly one publish attempt,
\* made only after the repository write succeeded, and a request that failed
\* a check or the repository write causes none: Publish is called only by a
\* request that has written and has not published, and a request that was
\* answered made one attempt if it wrote and none if it did not.
C20_OnePublishAfterWrite ==
    /\ [](rq # <<>> =>
            /\ rq.pubs \in {0, 1}
            /\ rq.pubs = 1 => rq.wrote
            /\ rq.pc = "responded" => rq.pubs = (IF rq.wrote THEN 1 ELSE 0))
    /\ [][IsPublish =>
            (rq.pc = "written" /\ rq.wrote /\ rq.pubs = 0 /\ rq'.pubs = 1)]_vars

\* C20 witness: a cancellation was written, published once and answered 200
\* after an earlier request had been refused without a publish attempt.
C20_Witness ==
    /\ rq # <<>>
    /\ rq.op = "cancel"
    /\ rq.pc = "responded"
    /\ rq.wrote
    /\ rq.pubs = 1
    /\ rq.http = 200
    /\ nextId = 3

\* C21: NewEventService on a fresh bus leaves each event type with exactly
\* four handlers, its default logging handler, analytics, notification and
\* audit; each AddCustomHandler afterwards appends exactly one entry to the
\* list of the type it names and leaves the other list alone.
C21_FacadeRegistersFourPerType ==
    [][/\ (~FacadeBuilt /\ hkind'[DefaultCreated] # "none") =>
            /\ subscribers'["order.created"] =
                   <<DefaultCreated, Analytics, Notifications, Audit>>
            /\ subscribers'["order.status.updated"] =
                   <<DefaultStatus, Analytics, Notifications, Audit>>
            /\ hkind'[DefaultCreated] = "default" /\ hkind'[DefaultStatus] = "default"
            /\ hkind'[Analytics] = "analytics"
            /\ hkind'[Notifications] = "notifications"
            /\ hkind'[Audit] = "audit"
       /\ \A h \in Handlers :
            (hkind[h] = "none" /\ hkind'[h] = "custom") =>
               \E t \in EventTypes :
                  /\ subscribers'[t] = Append(subscribers[t], h)
                  /\ \A u \in EventTypes \ {t} : subscribers'[u] = subscribers[u]]_vars

\* A custom handler has been added to a type after the four of the service.
C21_Witness ==
    /\ FacadeBuilt
    /\ \E t \in EventTypes :
          /\ Len(subscribers[t]) = 5
          /\ hkind[subscribers[t][5]] = "custom"

\* Event e has been dispatched and its handler of kind k has returned.
Returned(e, k) ==
    \E i \in 1..Len(calls[e]) : hkind[calls[e][i].h] = k /\ calls[e][i].st # "spawned"

\* Event e is fully processed: accepted, dispatched, every handler returned.
Processed(e) ==
    /\ e \in accepted
    /\ dispatchedWith[e] # <<>>
    /\ \A i \in 1..Len(calls[e]) : calls[e][i].st # "spawned"

\* C22: every order.created event published through the service whose
\* analytics handler has run (so every fully processed one) has added
\* exactly 1 to orders_created, and every such event of any type exactly 1
\* to events_published; nothing else adds to the two counters.
C22_CreatedCountedOnce ==
    /\ eventStats.OrdersCreated =
          Cardinality({e \in EventIds : evType[e] = "order.created" /\ Returned(e, "analytics")})
    /\ eventStats.EventsPublished =
          Cardinality({e \in EventIds : Returned(e, "analytics")})

\* One order.created event is fully processed and both counters stand at 1.
C22_Witness ==
    /\ \E e \in EventIds : evType[e] = "order.created" /\ Processed(e)
    /\ accepted = {1}
    /\ eventStats.OrdersCreated = 1
    /\ eventStats.EventsPublished = 1

\* C24: every order.status.updated event whose analytics handler has run
\* has added exactly 1 to status_updates, and exactly 1 to orders_cancelled
\* if its new status is cancelled, nothing for any other new status.
C24_CancelledCountedOnCancel ==
    /\ eventStats.StatusUpdates =
          Cardinality({e \in EventIds :
                         evType[e] = "order.status.updated" /\ Returned(e, "analytics")})
    /\ eventStats.OrdersCancelled =
          Cardinality({e \in EventIds :
                         /\ evType[e] = "order.status.updated"
                         /\ Returned(e, "analytics")
                         /\ newStatus[e] = "cancelled"})

\* A cancellation and a transition to in-progress are both processed: two
\* status updates, one cancellation counted.
C24_Witness ==
    /\ \E e \in EventIds :
          evType[e] = "order.status.updated" /\ newStatus[e] = "cancelled" /\ Processed(e)
    /\ \E e \in EventIds :
          evType[e] = "order.status.updated" /\ newStatus[e] = "in_work" /\ Processed(e)
    /\ eventStats.StatusUpdates = 2
    /\ eventStats.OrdersCancelled = 1

\* C25: for an order.status.updated event the notification handler sends
\* a notification, once, exactly when it has run and the new status is
\* completed or cancelled; for in-progress and created it sends none.
C25_NotifiesOnTerminalStatus ==
    \A e \in EventIds :
        evType[e] = "order.status.updated" =>
            notified[e] =
                (IF Returned(e, "notifications") /\ newStatus[e] \in {"completed", "cancelled"}
                 THEN 1 ELSE 0)

\* A completed order was notified, a transition to in-progress was not.
C25_Witness ==
    /\ \E e \in EventIds :
          /\ evType[e] = "order.status.updated" /\ newStatus[e] = "completed"
          /\ Processed(e) /\ notified[e] = 1
    /\ \E e \in EventIds :
          /\ evType[e] = "order.status.updated" /\ newStatus[e] = "in_work"
          /\ Processed(e) /\ notified[e] = 0

\* C26: a fully processed order.created event has caused no notification
\* and exactly one audit record.
C26_CreatedNotNotified ==
    \A e \in EventIds :
        (evType[e] = "order.created" /\ Processed(e)) =>
            notified[e] = 0 /\ audited[e] = 1

\* C23: GetStats is read-only. A step that leaves a GetStats result
\* standing changes no counter, and a GetStats called when the result of an
\* earlier call still stands (no handler has run since) returns the same
\* values for all five counters.
C23_GetStatsReadOnly ==
    [][statsRead' # <<>> =>
          /\ eventStats' = eventStats
          /\ statsRead # <<>> => \A k \in StatKeys : statsRead'[k] = statsRead[k]]_vars

\* GetStats has been called after two events were counted, one of them a
\* cancellation.
C23_Witness ==
    /\ statsRead # <<>>
    /\ statsRead["events_published"] = 2
    /\ statsRead["orders_cancelled"] = 1

\* C27: a payload-reading handler (default logging, analytics,
\* notification) that has run on an event whose data is a generic map that
\* decodes into the typed payload has rebuilt the payload and processed
\* the event: it has not returned an error.
C27_MapPayloadRebuilt ==
    \A e \in EventIds : \A i \in 1..Len(calls[e]) :
        (/\ payload[e] = "map"
         /\ hkind[calls[e][i].h] \in {"default", "analytics", "notifications"}
         /\ calls[e][i].st # "spawned")
        => calls[e][i].st = "done"

\* C28: every call made to the Kafka publisher, the constructor, Publish,
\* Subscribe or Close, has returned the not-implemented error.
C28_KafkaAlwaysFails ==
    \A i \in 1..Len(kafkaLog) : kafkaLog[i].err = "not_implemented"

\* The operation string the service passes to extractMetadata for an event
\* of type t.
OperationOf(t) == IF t = "order.created" THEN "order.create" ELSE "order.status.update"

\* C30: the correlation id in the metadata of an event the service
\* published is the request id, "-" and the operation when the metadata
\* carries a request id, and the operation alone when it carries none,
\* which includes the events published without an HTTP request.
C30_CorrelationId ==
    \A e \in accepted :
        metadata[e].CorrelationID =
            (IF metadata[e].RequestID # <<>>
             THEN metadata[e].RequestID \o <<"-", OperationOf(evType[e])>>
             ELSE <<OperationOf(evType[e])>>)

\* C29: a Publish whose caller's ctx is done leaves the bus's lifecycle
\* (context, channel, worker, Close), the registry and the handler
\* goroutines as they were, and the queue too when it returns the caller's
\* cancellation; and whatever the ctx of the last Publish was, on a running
\* bus every spawned handler can run and a Publish with a live ctx is
\* accepted while the buffer has room.
C29_CallerCancelFrame ==
    [][(IsPublish /\ lastCtxDone') =>
             /\ cancelled' = cancelled /\ chClosed' = chClosed
             /\ wpc' = wpc /\ closePc' = closePc
             /\ subscribers' = subscribers
             /\ calls' = calls
             /\ lastResult' = "cancelled" => (events' = events /\ accepted' = accepted)
             /\ \A e \in EventIds : \A i \in 1..Len(calls'[e]) :
                    calls'[e][i].st = "spawned" => (ENABLED HandlerRun(e, i))'
             /\ (~cancelled' /\ Len(events') < QueueCap) =>
                    PublishOutcomes(FALSE)' = {"ok"}]_vars

\* On a bus that was never closed the first Publish was refused, which only
\* a done ctx can cause; the second, with a live ctx, was accepted and a
\* handler has run for it.
C29_Witness ==
    /\ ~cancelled
    /\ 1 \notin accepted
    /\ 2 \in accepted
    /\ ~lastCtxDone
    /\ \E i \in 1..Len(calls[2]) : calls[2][i].st = "done"

\* C33: for two accepted events of one type, the earlier accepted first, a
\* handler subscribed to the type has run for the later event only if it
\* has run for the earlier one.
C33_PerHandlerOrder ==
    \A e1 \in accepted : \A e2 \in accepted :
        (e1 < e2 /\ evType[e1] = evType[e2]) =>
            \A i \in 1..Len(calls[e1]) : \A j \in 1..Len(calls[e2]) :
                (calls[e1][i].h = calls[e2][j].h /\ calls[e2][j].st # "spawned")
                => calls[e1][i].st # "spawned"

\* C38: a step in which the analytics handler returns an error for an event
\* leaves orders_created, status_updates and events_published as they were
\* and adds 1 to event_processing_errors.
C38_RejectedEventNotCounted ==
    [][\A e \in EventIds : \A i \in 1..Len(calls[e]) :
          (/\ hkind[calls[e][i].h] = "analytics"
           /\ calls[e][i].st = "spawned"
           /\ calls'[e][i].st = "failed")
          => eventStats' = [eventStats EXCEPT !.EventProcessingErrors = @ + 1]]_vars

\* C31: a step is a PublishOrderCancelled call exactly if it is a
\* PublishOrderStatusUpdated call with the new status cancelled and the same
\* order, owner, actor and old status; the event it publishes is an
\* order.status.updated event with these fields; and the analytics handler
\* that processes an event with the new status cancelled adds 1 to
\* status_updates and 1 to orders_cancelled.
C31_CancelIsStatusUpdate ==
    [][/\ \A d \in AskedUpdates : \A r \in {NoRequest} :
            /\ PublishOrderCancelled(d, r) <=> PublishOrderStatusUpdated(d, "cancelled", r)
            /\ (PublishOrderCancelled(d, r) /\ lastResult' = "ok") =>
                  /\ evType'[nextId] = "order.status.updated"
                  /\ newStatus'[nextId] = "cancelled"
                  /\ evData'[nextId] = d
       /\ \A e \in EventIds :
            (/\ evType[e] = "order.status.updated" /\ newStatus[e] = "cancelled"
             /\ ~Returned(e, "analytics") /\ Returned(e, "analytics")')
            => /\ eventStats'.StatusUpdates = eventStats.StatusUpdates + 1
               /\ eventStats'.OrdersCancelled = eventStats.OrdersCancelled + 1]_vars

\* A cancellation by somebody else than the owner is processed and counted
\* once as a status update and once as a cancellation.
C31_Witness ==
    /\ \E e \in EventIds :
          /\ evType[e] = "order.status.updated" /\ newStatus[e] = "cancelled"
          /\ evData[e] = StatusData(1, "u1", "u2", "in_work")
          /\ Processed(e)
    /\ eventStats.StatusUpdates = 1
    /\ eventStats.OrdersCancelled = 1

C37_StatsOfThisService ==
    statsRead # <<>> =>
        /\ statsRead["events_published"] =
              Cardinality({e \in EventIds : Returned(e, "analytics")})
        /\ statsRead["orders_created"] =
              Cardinality({e \in EventIds :
                             evType[e] = "order.created" /\ Returned(e, "analytics")})
        /\ statsRead["status_updates"] =
              Cardinality({e \in EventIds :
                             evType[e] = "order.status.updated" /\ Returned(e, "analytics")})

\* C32: neither of two Close calls on one bus panics, and when both have
\* returned the bus is closed.
C32_SecondCloseSafe ==
    /\ closePc # "panic"
    /\ close2 # "panic"
    /\ (closePc = "returned" /\ close2 = "returned") => (cancelled /\ chClosed)

\* C34: once the stored status of an order is completed or cancelled, no
\* step changes it, and no UpdateOrderStatus or CancelOrder request
\* publishes a status event for a write it made on such an order, however
\* the requests on the order interleave.
C34_TerminalStatusIsFinal ==
    [][ /\ \A o \in OrderIds :
             orders[o] \in {"completed", "cancelled"} => orders'[o] = orders[o]
        /\ \A q \in Slots :
             (/\ reqs[q] # <<>>
              /\ reqs'[q] # <<>>
              /\ reqs[q].pc = "written"
              /\ reqs'[q].pc = "published"
              /\ lastResult' = "ok")
               => reqs[q].prev \notin {"completed", "cancelled"} ]_vars

\* C35: the OldStatus of the order.status.updated event a request publishes
\* is the status the stored order had immediately before the write of that
\* request, also when requests on the same order run concurrently.
C35_OldStatusIsStatusBeforeWrite ==
    [][ \A q \in Slots :
          (/\ reqs[q] # <<>>
           /\ reqs'[q] # <<>>
           /\ reqs[q].pc = "written"
           /\ reqs'[q].pc = "published"
           /\ lastResult' = "ok")
            => evData'[nextId].OldStatus = reqs[q].prev ]_vars

\* C39: no step of a request by a user who is neither the order's owner nor
\* an admin changes a stored status or gets an event accepted; and the
\* status event of any request carries the owner as UserID and the
\* requesting user as UpdatedBy (an admin acting on another user's order
\* included).
C39_OnlyOwnerOrAdmin ==
    [][ \A q \in Slots :
          /\ (/\ reqs'[q] # <<>>
              /\ reqs'[q] # reqs[q]
              /\ ~reqs'[q].actor.admin
              /\ reqs'[q].actor.id # OwnerOf(reqs'[q].id))
               => (orders' = orders /\ accepted' = accepted /\ events' = events)
          /\ (/\ reqs[q] # <<>>
              /\ reqs'[q] # <<>>
              /\ reqs[q].pc = "written"
              /\ reqs'[q].pc = "published"
              /\ lastResult' = "ok")
               => /\ evData'[nextId].UserID = OwnerOf(reqs[q].id)
                  /\ evData'[nextId].UpdatedBy = reqs[q].actor.id ]_vars

\* An admin's request on the order of "u1" got its event accepted, and
\* after it a request by a user who is neither was answered 403.
C39_Witness ==
    /\ \E e \in accepted :
          /\ evData[e] # <<>>
          /\ evData[e].UserID = "u1"
          /\ evData[e].UpdatedBy = "u2"
    /\ reqs[1] # <<>>
    /\ reqs[1].pc = "responded"
    /\ reqs[1].http = 403
    /\ ~reqs[1].actor.admin
    /\ reqs[1].actor.id = "u2"

====
